---- MODULE Spec2Model ----
(***************************************************************************)
(* Compact letter display of statistical_analysis_reproducible_from_csv.py *)
(* : cld_from_tukey, the greedy two-pass letter assignment, and the part   *)
(* of main that builds its inputs and calls it.                            *)
(*                                                                         *)
(* Letters are one-character strings, a level's letter string is the       *)
(* sequence of its letters, a group is a set of levels and letter_sets is  *)
(* the sequence of groups in creation order.  Python indexes from 0 and    *)
(* TLA+ from 1: group i of the code is letter_sets[i + 1] here.            *)
(***************************************************************************)
EXTENDS Integers, Sequences, FiniteSets, TLC

VARIABLES
    rate_levels,   \* argument: the levels, in the caller's order
    means_dict,    \* argument: level -> mean
    reject_pairs,  \* argument: (level, level) -> BOOLEAN, a partial mapping
    sorted_rates,  \* local: the levels by descending mean
    letter_sets,   \* local: the groups, in creation order
    letters_map,   \* local, then the result: level -> letter string
    pc,            \* position in cld_from_tukey
    pos,           \* index of the running outer loop (1-based)
    call,          \* which of two calls on the same arguments is running
    first_out      \* what the first call returned

vars == <<rate_levels, means_dict, reject_pairs, sorted_rates, letter_sets,
          letters_map, pc, pos, call, first_out>>

\* Means are drawn from 1..MaxMean; equal means exercise the stable sort.
MaxMean == 2

\* The levels main passes to cld_from_tukey.
Rates == <<2, 4, 6, 8>>

ascii_lowercase ==
    <<"a", "b", "c", "d", "e", "f", "g", "h", "i", "j", "k", "l", "m",
      "n", "o", "p", "q", "r", "s", "t", "u", "v", "w", "x", "y", "z">>

Range(seq) == {seq[i] : i \in DOMAIN seq}

(***************************************************************************)
(* The lookup of both passes:                                              *)
(*   key = (r, rr) if (r, rr) in reject_pairs else (rr, r)                 *)
(*   reject_pairs.get(key, False)                                          *)
(***************************************************************************)
SignificantForwardOnly(rp, r, rr) ==
    IF <<r, rr>> \in DOMAIN rp THEN rp[<<r, rr>>] ELSE FALSE

SignificantDefaultTrue(rp, r, rr) ==
    LET key == IF <<r, rr>> \in DOMAIN rp THEN <<r, rr>> ELSE <<rr, r>>
    IN  IF key \in DOMAIN rp THEN rp[key] ELSE TRUE

Significant(rp, r, rr) ==
    LET key == IF <<r, rr>> \in DOMAIN rp THEN <<r, rr>> ELSE <<rr, r>>
    IN  IF key \in DOMAIN rp THEN rp[key] ELSE FALSE

(***************************************************************************)
(* for rr in s: ... ok = False; break.  visit is the order in which the    *)
(* iteration yields the members of the group.                              *)
(***************************************************************************)
CompatibleFirstVisited(rp, r, visit) ==
    IF visit = <<>> THEN TRUE ELSE ~Significant(rp, r, Head(visit))

RECURSIVE Compatible(_, _, _)
Compatible(rp, r, visit) ==
    IF visit = <<>> THEN TRUE
    ELSE IF Significant(rp, r, Head(visit)) THEN FALSE
    ELSE Compatible(rp, r, Tail(visit))

\* The orders in which an iteration can yield the members of the set s.
Orders(s) ==
    {h \in [1..Cardinality(s) -> s] : Range(h) = s}

\* One iteration order for each group of ls.
RECURSIVE VisitOrders(_)
VisitOrders(ls) ==
    IF ls = <<>> THEN {<<>>}
    ELSE {Append(v, o) : v \in VisitOrders(SubSeq(ls, 1, Len(ls) - 1)),
                         o \in Orders(ls[Len(ls)])}

(***************************************************************************)
(* sorted(rate_levels, key=lambda r: means_dict[r], reverse=True): a       *)
(* stable sort, so levels of equal mean keep the caller's order.           *)
(***************************************************************************)
InsertDesc(srt, r, means) ==
    LET k == Cardinality({i \in DOMAIN srt : means[srt[i]] >= means[r]})
    IN  SubSeq(srt, 1, k) \o <<r>> \o SubSeq(srt, k + 1, Len(srt))

RECURSIVE SortedDesc(_, _)
SortedDesc(levels, means) ==
    IF levels = <<>> THEN <<>>
    ELSE InsertDesc(SortedDesc(SubSeq(levels, 1, Len(levels) - 1), means),
                    levels[Len(levels)], means)

(***************************************************************************)
(* Pass 1, one level r: the groups that accept r, r's new membership and   *)
(* r's new letters.                                                        *)
(***************************************************************************)
AcceptingFirstOnly(rp, r, visits) ==
    LET all == {i \in DOMAIN visits : Compatible(rp, r, visits[i])}
    IN  {i \in all : \A j \in all : i <= j}

Accepting(rp, r, visits) ==
    {i \in DOMAIN visits : Compatible(rp, r, visits[i])}

\* placed, when the scan of the ngroups existing groups ends.
PlacedByAnyScan(acc, ngroups) == ngroups > 0

Placed(acc, ngroups) == acc # {}

JoinGroups(ls, r, acc) ==
    LET joined == [i \in DOMAIN ls |->
                     IF i \in acc THEN ls[i] \cup {r} ELSE ls[i]]
    IN  IF Placed(acc, Len(ls)) THEN joined ELSE Append(joined, {r})

\* The letters of the groups acc, in the order the scan meets them.
RECURSIVE GroupLetters(_, _)
GroupLetters(acc, n) ==
    IF n = 0 THEN <<>>
    ELSE GroupLetters(acc, n - 1)
         \o (IF n \in acc THEN <<ascii_lowercase[n]>> ELSE <<>>)

Pass1Letters(str, acc, ngroups) ==
    LET scanned == str \o GroupLetters(acc, ngroups)
    IN  IF Placed(acc, ngroups) THEN scanned
        ELSE Append(scanned, ascii_lowercase[ngroups + 1])

(***************************************************************************)
(* Pass 2, one group and one level r.                                      *)
(***************************************************************************)
BackFillNoHeldCheck(rp, str, r, visit, letter) ==
    IF Compatible(rp, r, visit) THEN Append(str, letter) ELSE str

BackFill(rp, str, r, visit, letter) ==
    IF letter \in Range(str) THEN str
    ELSE IF Compatible(rp, r, visit) THEN Append(str, letter)
    ELSE str

(***************************************************************************)
(* "".join(sorted(set(letters_map[r]), key=ascii_lowercase.index))         *)
(***************************************************************************)
AlphaIndex(x) == CHOOSE i \in DOMAIN ascii_lowercase : ascii_lowercase[i] = x

RECURSIVE SortByIndex(_)
SortByIndex(set) ==
    IF set = {} THEN <<>>
    ELSE LET x == CHOOSE y \in set : \A z \in set : AlphaIndex(y) <= AlphaIndex(z)
         IN  <<x>> \o SortByIndex(set \ {x})

Normalised(str) == SortByIndex(Range(str))

(***************************************************************************)
(* The arguments.  main calls with the levels 2, 4, 6, 8; shorter level    *)
(* lists are the same call on fewer rates.  main records each pair once,   *)
(* smaller rate first; a mapping that lacks a pair is one whose pairwise   *)
(* test left the comparison out.                                           *)
(***************************************************************************)
LevelLists == {SubSeq(Rates, 1, n) : n \in 0..Len(Rates)}

TukeyPairs(levels) ==
    {<<levels[i], levels[j]>> : i, j \in DOMAIN levels} \cap
    {p \in Range(levels) \X Range(levels) : p[1] < p[2]}

RejectDicts(levels) ==
    UNION {[D -> BOOLEAN] : D \in SUBSET TukeyPairs(levels)}

\* The shape of the state: the three arguments and the locals.
TypeOK ==
    /\ rate_levels \in LevelLists
    /\ means_dict \in [Range(rate_levels) -> 1..MaxMean]
    /\ DOMAIN reject_pairs \subseteq TukeyPairs(rate_levels)
    /\ \A p \in DOMAIN reject_pairs : reject_pairs[p] \in BOOLEAN
    /\ Range(sorted_rates) \subseteq Range(rate_levels)
    /\ \A i \in DOMAIN letter_sets : letter_sets[i] \subseteq Range(rate_levels)
    /\ \A r \in DOMAIN letters_map :
         Range(letters_map[r]) \subseteq Range(ascii_lowercase)
    /\ pc \in {"start", "pass1", "pass2", "normalise", "done"}
    /\ pos \in 1..(Len(rate_levels) + 1)
    /\ call \in {"first", "second"}

Init ==
    /\ rate_levels \in LevelLists
    /\ means_dict \in [Range(rate_levels) -> 1..MaxMean]
    /\ reject_pairs \in RejectDicts(rate_levels)
    /\ sorted_rates = <<>>
    /\ letter_sets = <<>>
    /\ letters_map = <<>>
    /\ pc = "start"
    /\ pos = 1
    /\ call = "first"
    /\ first_out = <<>>

\* Lines 46-48.
Start ==
    /\ pc = "start"
    /\ sorted_rates' = SortedDesc(rate_levels, means_dict)
    /\ letter_sets' = <<>>
    /\ letters_map' = [r \in Range(rate_levels) |-> <<>>]
    /\ pos' = 1
    /\ pc' = IF rate_levels = <<>> THEN "normalise" ELSE "pass1"
    /\ UNCHANGED <<rate_levels, means_dict, reject_pairs, call, first_out>>

\* Lines 50-65, one iteration of "for r in sorted_rates".
Pass1Step ==
    /\ pc = "pass1"
    /\ \E visits \in VisitOrders(letter_sets) :
        LET r == sorted_rates[pos]
            acc == Accepting(reject_pairs, r, visits)
        IN  /\ letter_sets' = JoinGroups(letter_sets, r, acc)
            /\ letters_map' =
                 [letters_map EXCEPT ![r] = Pass1Letters(@, acc, Len(letter_sets))]
    /\ pos' = IF pos = Len(sorted_rates) THEN 1 ELSE pos + 1
    /\ pc' = IF pos = Len(sorted_rates) THEN "pass2" ELSE "pass1"
    /\ UNCHANGED <<rate_levels, means_dict, reject_pairs, sorted_rates, call,
                   first_out>>

\* Lines 68-80, one iteration of "for i, s in enumerate(letter_sets)".
Pass2Step ==
    /\ pc = "pass2"
    /\ \E visit \in Orders(letter_sets[pos]) :
        LET letter == ascii_lowercase[pos]
        IN  letters_map' =
              [r \in DOMAIN letters_map |->
                 BackFill(reject_pairs, letters_map[r], r, visit, letter)]
    /\ pos' = IF pos = Len(letter_sets) THEN 1 ELSE pos + 1
    /\ pc' = IF pos = Len(letter_sets) THEN "normalise" ELSE "pass2"
    /\ UNCHANGED <<rate_levels, means_dict, reject_pairs, sorted_rates,
                   letter_sets, call, first_out>>

\* Lines 82-84.
Normalise ==
    /\ pc = "normalise"
    /\ letters_map' = [r \in DOMAIN letters_map |-> Normalised(letters_map[r])]
    /\ pc' = "done"
    /\ UNCHANGED <<rate_levels, means_dict, reject_pairs, sorted_rates,
                   letter_sets, pos, call, first_out>>

Next == Start \/ Pass1Step \/ Pass2Step \/ Normalise

Spec == Init /\ [][Next]_vars

(***************************************************************************)
(* Two calls on the same arguments: the caller keeps what the first call   *)
(* returned and calls again.                                               *)
(***************************************************************************)
Rerun ==
    /\ pc = "done"
    /\ call = "first"
    /\ first_out' = letters_map
    /\ call' = "second"
    /\ pc' = "start"
    /\ UNCHANGED <<rate_levels, means_dict, reject_pairs, sorted_rates,
                   letter_sets, letters_map, pos>>

NextTwoCalls == Start \/ Pass1Step \/ Pass2Step \/ Normalise \/ Rerun

SpecTwoCalls == Init /\ [][NextTwoCalls]_vars

(***************************************************************************)
(* The vocabulary of the properties.                                       *)
(***************************************************************************)
Levels == Range(rate_levels)

\* significant(a, b), as both passes look it up.
Sig(a, b) == Significant(reject_pairs, a, b)

Recorded(a, b) == <<a, b>> \in DOMAIN reject_pairs

\* The pair is recorded, one way round or the other, as significant.
RecordedSignificant(a, b) ==
    \/ Recorded(a, b) /\ reject_pairs[<<a, b>>]
    \/ Recorded(b, a) /\ reject_pairs[<<b, a>>]

Letters(r) == Range(letters_map[r])

SharesLetter(a, b) == Letters(a) \cap Letters(b) # {}

\* The position of level r in the order pass 1 processes the levels.
Pos(r) == CHOOSE k \in DOMAIN sorted_rates : sorted_rates[k] = r

Returned == pc = "done"

Pass1Ended == pc = "pass2" /\ pos = 1

SymmetricRelation == \A a, b \in Levels : Sig(a, b) = Sig(b, a)

StrictlyIncreasing(str) ==
    \A i, j \in DOMAIN str : i < j => AlphaIndex(str[i]) < AlphaIndex(str[j])

\* The groups level r is a member of.
GroupsOf(r) == {i \in DOMAIN letter_sets : r \in letter_sets[i]}

\* The members of group i that pass 1 processed before level r.
Earlier(i, r) == {m \in letter_sets[i] : Pos(m) < Pos(r)}

(***************************************************************************)
(* C1 (soundness).  In the returned mapping, under a symmetric             *)
(* significance relation, two distinct levels that have a letter in        *)
(* common are not significantly different.                                 *)
(***************************************************************************)
C1_Soundness ==
    (Returned /\ SymmetricRelation) =>
        \A a, b \in Levels : (a # b /\ SharesLetter(a, b)) => ~Sig(a, b)

(***************************************************************************)
(* C2 (coverage).  In the returned mapping, under a symmetric significance *)
(* relation, two levels that are not significantly different have a letter *)
(* in common.                                                              *)
(***************************************************************************)
C2_Coverage ==
    (Returned /\ SymmetricRelation) =>
        \A a, b \in Levels : ~Sig(a, b) => SharesLetter(a, b)

(***************************************************************************)
(* C3 (completeness).  The keys of the returned mapping are exactly the    *)
(* input levels and every level's letter string is non-empty.              *)
(***************************************************************************)
C3_Completeness ==
    Returned =>
        /\ DOMAIN letters_map = Levels
        /\ \A r \in Levels : letters_map[r] # <<>>

\* A call on all four rates returns, a level having been refused by every
\* existing group and given a group of its own.
C3_Witness ==
    /\ Returned
    /\ Len(rate_levels) = Len(Rates)
    /\ Len(letter_sets) >= 2
    /\ \A r \in Levels : letters_map[r] # <<>>

(***************************************************************************)
(* C4 (determinism).  The second call on the same arguments returns the    *)
(* mapping the first call returned, the same letters in the same order for *)
(* every level, whatever the orders in which the two calls visited the     *)
(* members of the groups.                                                  *)
(***************************************************************************)
C4_Determinism ==
    (call = "second" /\ Returned) => letters_map = first_out

\* Both calls have returned and a group had members to visit in more than
\* one order while significant pairs existed.
C4_Witness ==
    /\ call = "second"
    /\ Returned
    /\ letters_map = first_out
    /\ \E i \in DOMAIN letter_sets : Cardinality(letter_sets[i]) >= 2
    /\ \E a, b \in Levels : Sig(a, b)

(***************************************************************************)
(* C5 (symmetric lookup).  For a pair recorded under one orientation only, *)
(* the lookup yields the recorded value asked either way round, and        *)
(* neither pass treats a pair recorded as significant as compatible: no    *)
(* level holds the letter of a group with a member it is recorded to       *)
(* differ from.                                                            *)
(***************************************************************************)
C5_SymmetricLookup ==
    \A a, b \in Levels :
        (a # b /\ Recorded(a, b) /\ ~Recorded(b, a)) =>
            /\ Sig(a, b) = reject_pairs[<<a, b>>]
            /\ Sig(b, a) = reject_pairs[<<a, b>>]
            /\ reject_pairs[<<a, b>>] =>
                 \A i \in DOMAIN letter_sets :
                     /\ a \in letter_sets[i] => ascii_lowercase[i] \notin Letters(b)
                     /\ b \in letter_sets[i] => ascii_lowercase[i] \notin Letters(a)

\* A pair recorded as (a, b) and significant, where pass 1 processed a
\* first, so that b was tested against a as (b, a), and the call returned.
C5_Witness ==
    /\ Returned
    /\ \E a, b \in Levels :
        /\ Recorded(a, b) /\ ~Recorded(b, a)
        /\ reject_pairs[<<a, b>>]
        /\ Pos(a) < Pos(b)
        /\ ~SharesLetter(a, b)

(***************************************************************************)
(* C6 (missing pair).  A pair recorded in neither orientation is looked up *)
(* as not significant, both ways round, and counts as compatible: in the   *)
(* returned mapping a level holds the letter of every group all of whose   *)
(* other members it has no recorded result with.                           *)
(***************************************************************************)
C6_MissingPairDefault ==
    /\ \A a, b \in Levels :
         (a # b /\ ~Recorded(a, b) /\ ~Recorded(b, a)) =>
             (~Sig(a, b) /\ ~Sig(b, a))
    /\ Returned =>
         \A r \in Levels : \A i \in DOMAIN letter_sets :
             (\A m \in letter_sets[i] \ {r} : ~Recorded(r, m) /\ ~Recorded(m, r))
                 => ascii_lowercase[i] \in Letters(r)

\* The call returned with two levels sharing a letter whose pair is recorded
\* nowhere, while another pair is recorded as significant.
C6_Witness ==
    /\ Returned
    /\ \E a, b \in Levels :
        /\ a # b /\ ~Recorded(a, b) /\ ~Recorded(b, a)
        /\ SharesLetter(a, b)
    /\ \E a, b \in Levels : Recorded(a, b) /\ reject_pairs[<<a, b>>]

(***************************************************************************)
(* C7 (totally significant set).  When every two distinct levels are       *)
(* recorded as significant, every level is returned exactly one letter,    *)
(* distinct levels have distinct letters, and as many letters are used as  *)
(* there are levels.                                                       *)
(***************************************************************************)
C7_TotallySignificant ==
    (Returned /\ \A a, b \in Levels : a # b => RecordedSignificant(a, b)) =>
        /\ \A r \in Levels : Len(letters_map[r]) = 1
        /\ \A a, b \in Levels : a # b => letters_map[a] # letters_map[b]
        /\ Cardinality(UNION {Letters(r) : r \in Levels}) = Cardinality(Levels)

\* The call on all four rates, all pairs significant, returned.
C7_Witness ==
    /\ Returned
    /\ Len(rate_levels) = Len(Rates)
    /\ \A a, b \in Levels : a # b => RecordedSignificant(a, b)
    /\ \A r \in Levels : Len(letters_map[r]) = 1

(***************************************************************************)
(* C8 as stated (one group only).  When pass 1 ends, every level is a      *)
(* member of exactly one group and holds exactly one letter.               *)
(***************************************************************************)
C8_OneGroupOnly ==
    Pass1Ended =>
        \A r \in Levels :
            /\ Cardinality(GroupsOf(r)) = 1
            /\ Len(letters_map[r]) = 1

(***************************************************************************)
(* C8 as amended.  When pass 1 ends, every level is a member of at least   *)
(* one group and holds exactly the letters of the groups it is a member    *)
(* of, in creation order.  It is a member of every group that existed when *)
(* it was processed and whose members were then all not significantly      *)
(* different from it (the scan goes on after the level is placed), and of  *)
(* a group created for it only when no existing group accepted it.         *)
(***************************************************************************)
C8_JoinsEveryAcceptingGroup ==
    Pass1Ended =>
        \A r \in Levels :
            /\ GroupsOf(r) # {}
            /\ letters_map[r] = GroupLetters(GroupsOf(r), Len(letter_sets))
            /\ \A i \in DOMAIN letter_sets :
                 /\ Earlier(i, r) # {} =>
                      (r \in letter_sets[i] <=> \A m \in Earlier(i, r) : ~Sig(r, m))
                 /\ (r \in letter_sets[i] /\ Earlier(i, r) = {}) =>
                      /\ GroupsOf(r) = {i}
                      /\ \A j \in 1..(i - 1) :
                           \E m \in Earlier(j, r) : Sig(r, m)

\* Pass 1 ended with a level placed in two groups.
C8_Witness ==
    /\ Pass1Ended
    /\ \E r \in Levels : Cardinality(GroupsOf(r)) >= 2
    /\ \E r \in Levels : \E i \in GroupsOf(r) : i > 1 /\ Earlier(i, r) = {}

(***************************************************************************)
(* C9 (group invariant).  In every state of the two passes, under a        *)
(* symmetric significance relation, every group is non-empty and every two *)
(* distinct members of one group are not significantly different.          *)
(***************************************************************************)
C9_LetterGroupInvariant ==
    SymmetricRelation =>
        \A i \in DOMAIN letter_sets :
            /\ letter_sets[i] # {}
            /\ \A a, b \in letter_sets[i] : a # b => ~Sig(a, b)

\* Pass 2 runs with a group of two or more members beside a group that
\* refused a level.
C9_Witness ==
    /\ pc = "pass2"
    /\ Len(letter_sets) >= 2
    /\ \E i \in DOMAIN letter_sets : Cardinality(letter_sets[i]) >= 2
    /\ \E a, b \in Levels : Sig(a, b)

(***************************************************************************)
(* C10 (letters in increasing order).  In every state, each level's        *)
(* letters stand in strictly increasing alphabet order with no repeats, a  *)
(* letter held by a level outside the letter's group belongs to a group    *)
(* whose members were all processed after that level in pass 1, and the    *)
(* de-duplicate-and-sort step would leave the letter string unchanged.     *)
(***************************************************************************)
C10_IncreasingLetters ==
    \A r \in DOMAIN letters_map :
        /\ StrictlyIncreasing(letters_map[r])
        /\ Normalised(letters_map[r]) = letters_map[r]
        /\ \A i \in DOMAIN letter_sets :
             (ascii_lowercase[i] \in Letters(r) /\ r \notin letter_sets[i]) =>
                 \A m \in letter_sets[i] : Pos(r) < Pos(m)

\* Pass 2 has ended, before the final step, with a level holding a letter
\* from each pass.
C10_Witness ==
    /\ pc = "normalise"
    /\ \E r \in Levels : \E i \in DOMAIN letter_sets :
        /\ ascii_lowercase[i] \in Letters(r)
        /\ r \notin letter_sets[i]
        /\ Len(letters_map[r]) >= 2

====
